---- MODULE Spec2Model ----
(***************************************************************************)
(* Model of the capture-and-normalize pipeline of fcbq-stats               *)
(* (src/stats_engine.py): _capture_api_responses, its response handler,    *)
(* _extract_full_match_stats_and_moves, _build_dataframes and              *)
(* get_match_dataframes.                                                   *)
(*                                                                         *)
(* JSON and Python values are tagged tuples, so that values of different   *)
(* Python types can be compared:                                           *)
(*   <<"absent">>   the key is not in the dict                             *)
(*   <<"none">>     None / JSON null                                       *)
(*   <<"nan">>      the float NaN pandas puts in numeric columns           *)
(*   <<"int", n>>   an integer                                             *)
(*   <<"str", s>>   a string, s the sequence of its characters             *)
(*   <<"frac", n, d>>  the exact value n/d of a float division (d > 0)     *)
(*   <<"list", s>>  a list, s the sequence of its items                    *)
(*   <<"dict", r>>  a dict, r the record of the keys the code reads        *)
(***************************************************************************)
EXTENDS Integers, Sequences, FiniteSets, TLC

VARIABLES
    \* ---- _build_dataframes (normalizer) ----
    stats_payload,      \* parameter full_match_stats of _build_dataframes
    moves_payload,      \* parameter full_match_moves of _build_dataframes
    norm_pc,            \* "call" before _build_dataframes runs, "done" after
    dataframes,         \* what _build_dataframes returned, or what it raised
    \* ---- get_match_dataframes: capture, locate, build ----
    pc,                 \* where get_match_dataframes / _capture_api_responses is
    playwright,         \* "none", "running" or "stopped": the async_playwright() context
    browser,            \* "none", "open" or "closed"
    observer,           \* TRUE once page.on("response", handle_response) ran
    arrived,            \* number of responses the page has received
    inflight,           \* handle_response calls awaiting response.json()
    handled,            \* per response, in arrival order: how far its handle_response got
    captured_api_responses,
    exc,                \* the exception propagating out of the capture, or "none"
    responses,          \* line 292: what _capture_api_responses returned
    located,            \* line 293: the (stats, moves) pair, or the error raised
    build_calls,        \* the argument pairs _build_dataframes was called with
    \* ---- app.py main() and excel_exporter.py ----
    app_pc,             \* where the run of main() is
    match_url,          \* the URL in the text input
    page,               \* per match URL, the version of the data its page serves now
    cache,              \* st.cache_data of _cached_match_data: URL -> datasets
    app_data,           \* app.py line 42: data, the datasets the dashboard displays
    excel_bytes,        \* app.py line 56: the sheets of the workbook offered
    sessions            \* browser sessions opened since "Analizar partido" was pressed

norm_vars == <<stats_payload, moves_payload, norm_pc, dataframes>>
session_vars == <<playwright, browser, observer, arrived, inflight, handled,
                  captured_api_responses, exc>>
pipe_vars == <<pc, playwright, browser, observer, arrived, inflight, handled,
               captured_api_responses, exc, responses, located, build_calls>>

app_vars == <<app_pc, match_url, page, cache, app_data, excel_bytes, sessions>>

vars == <<stats_payload, moves_payload, norm_pc, dataframes,
          pc, playwright, browser, observer, arrived, inflight, handled,
          captured_api_responses, exc, responses, located, build_calls,
          app_pc, match_url, page, cache, app_data, excel_bytes, sessions>>

-----------------------------------------------------------------------------
(* Bounds of the model *)

MaxMoves == 3        \* longest move log of well-formed moves
MaxDirtyMoves == 1   \* longest move log drawn from every field variant
MaxMinute == 3       \* largest minute a move reports
MaxTeams == 2        \* most teams of a stats payload
MaxPeriods == 2      \* most periods a team reports
MaxPlayers == 2      \* most players of a roster
MaxResponses == 3    \* most responses the page receives in a session
MaxCaptured == 3     \* longest captured list the locator is run on
MaxVersion == 2      \* most times the site updates the data of a match page

-----------------------------------------------------------------------------
(* Python values *)

Absent == <<"absent">>
PyNone == <<"none">>
NaN == <<"nan">>
IntV(n) == <<"int", n>>
StrV(s) == <<"str", s>>

ListV(s) == <<"list", s>>
DictV(r) == <<"dict", r>>

IsInt(v) == v[1] = "int"
IsStr(v) == v[1] = "str"

\* dict.get(key): None when the key is absent
Get(d, key) == IF d[key] = Absent THEN PyNone ELSE d[key]
\* dict.get(key, default)
GetDefault(d, key, default) == IF d[key] = Absent THEN default ELSE d[key]
\* dict.get(key, []) of a list-valued key, as the sequence of its items
GetList(d, key) == IF d[key] = Absent THEN <<>> ELSE d[key][2]

\* Python truthiness of a value (bool(v))
Truthy(v) ==
    CASE v[1] = "none" -> FALSE
      [] v[1] = "int" -> v[2] # 0
      [] v[1] = "str" -> v[2] # <<>>
      [] v[1] = "nan" -> TRUE
      [] OTHER -> TRUE

Max(S) == CHOOSE x \in S : \A y \in S : y <= x

RECURSIVE SumSeq(_)
SumSeq(s) == IF s = <<>> THEN 0 ELSE Head(s) + SumSeq(Tail(s))

-----------------------------------------------------------------------------
(* Python string operations on character sequences *)

Digits == <<"0", "1", "2", "3", "4", "5", "6", "7", "8", "9">>
IsDigit(c) == \E i \in 1..10 : Digits[i] = c
DigitValue(c) == (CHOOSE i \in 1..10 : Digits[i] = c) - 1
IsSpace(c) == c = " "

\* str.split(sep) for a one-character separator: always at least one part
RECURSIVE Split(_, _)
Split(s, sep) ==
    IF \A i \in 1..Len(s) : s[i] # sep
    THEN <<s>>
    ELSE LET k == CHOOSE i \in 1..Len(s) :
                     s[i] = sep /\ \A j \in 1..(i - 1) : s[j] # sep
         IN <<SubSeq(s, 1, k - 1)>> \o Split(SubSeq(s, k + 1, Len(s)), sep)

\* str.strip()
RECURSIVE Strip(_)
Strip(s) ==
    IF s = <<>> THEN s
    ELSE IF IsSpace(Head(s)) THEN Strip(Tail(s))
    ELSE IF IsSpace(s[Len(s)]) THEN Strip(SubSeq(s, 1, Len(s) - 1))
    ELSE s

RECURSIVE DecimalValue(_)
DecimalValue(s) ==
    IF s = <<>> THEN 0
    ELSE 10 * DecimalValue(SubSeq(s, 1, Len(s) - 1)) + DigitValue(s[Len(s)])

\* int(s) for a str s: the value, or ValueError. (Over the model's alphabet of
\* digits, letters, "-" and blanks: a literal is a non-empty run of digits,
\* blanks around it allowed.)
PyInt(s) ==
    LET t == Strip(s)
    IN IF t # <<>> /\ \A i \in 1..Len(t) : IsDigit(t[i])
       THEN <<"ok", DecimalValue(t)>>
       ELSE <<"ValueError">>

-----------------------------------------------------------------------------
(* _build_dataframes: timeline (lines 228-256) *)

Raised(error, line) == [outcome |-> "raised", error |-> error, line |-> line]
IsRaised(r) == r.outcome = "raised"

\* lines 231-234: next((t["name"] for t in teams if t["teamIdIntern"] == id), "Unknown Team")
TeamNameOf(stats, idTeam) ==
    LET teams == stats.teams[2]
    IN IF \E i \in 1..Len(teams) : teams[i].teamIdIntern = idTeam
       THEN teams[CHOOSE i \in 1..Len(teams) :
                /\ teams[i].teamIdIntern = idTeam
                /\ \A j \in 1..(i - 1) : teams[j].teamIdIntern # idTeam].name
       ELSE "Unknown Team"

\* lines 235-239: the two score strings of a move, or the ValueError of
\* unpacking a split with other than two parts
ScoreStrings(move) ==
    LET score_combined == Get(move, "score")
    IN IF /\ Truthy(score_combined)
          /\ IsStr(score_combined)
          /\ \E i \in 1..Len(score_combined[2]) : score_combined[2][i] = "-"
       THEN LET parts == Split(score_combined[2], "-")
            IN IF Len(parts) = 2
               THEN <<"ok", Strip(parts[1]), Strip(parts[2])>>
               ELSE <<"ValueError">>
       ELSE <<"ok", <<"0">>, <<"0">>>>

\* lines 230-251, one iteration: the timeline row of a move, or the error raised
TimelineRow(stats, move) ==
    LET ss == ScoreStrings(move)
    IN IF stats.teams = Absent THEN Raised("KeyError", 232)
       ELSE IF ss[1] # "ok" THEN Raised("ValueError", 237)
       ELSE LET l == PyInt(ss[2])
                v == PyInt(ss[3])
            IN IF l[1] # "ok" \/ v[1] # "ok" THEN Raised("ValueError", 248)
               ELSE [outcome |-> "ok",
                     row |-> [TeamName |-> TeamNameOf(stats, Get(move, "idTeam")),
                              Minute |-> GetDefault(move, "min", IntV(0)),
                              ScoreLocal |-> l[2],
                              ScoreVisit |-> v[2]]]

\* lines 229-251: match_timeline_list, or the first error raised in the loop
RECURSIVE MatchTimelineList(_, _)
MatchTimelineList(stats, moves) ==
    IF moves = <<>> THEN [outcome |-> "ok", rows |-> <<>>]
    ELSE LET row == TimelineRow(stats, Head(moves))
         IN IF IsRaised(row) THEN row
            ELSE LET rest == MatchTimelineList(stats, Tail(moves))
                 IN IF IsRaised(rest) THEN rest
                    ELSE [outcome |-> "ok", rows |-> <<row.row>> \o rest.rows]

\* pd.to_numeric(x, errors="coerce").fillna(0).astype(int) on one value
CoerceMinute(v) ==
    CASE v[1] = "int" -> v[2]
      [] v[1] = "str" -> LET p == PyInt(v[2]) IN IF p[1] = "ok" THEN p[2] ELSE 0
      [] OTHER -> 0

\* lines 253-256: df_match_timeline with its Minute column coerced; an empty
\* list gives a frame without columns, and df["Minute"] raises KeyError
MatchTimeline(rows) ==
    IF rows = <<>> THEN Raised("KeyError", 255)
    ELSE [outcome |-> "ok",
          rows |-> [i \in 1..Len(rows) |->
                       [rows[i] EXCEPT !.Minute = CoerceMinute(rows[i].Minute)]]]

-----------------------------------------------------------------------------
(* _build_dataframes: minute-by-minute series (lines 258-273) *)

MinutesOf(rows) == {rows[i].Minute : i \in 1..Len(rows)}

\* groupby("Minute")[["Score Local", "Score Visit"]].max(): the row of one group
GroupMax(rows, m) ==
    [ScoreLocal |-> Max({rows[i].ScoreLocal : i \in {j \in 1..Len(rows) : rows[j].Minute = m}}),
     ScoreVisit |-> Max({rows[i].ScoreVisit : i \in {j \in 1..Len(rows) : rows[j].Minute = m}})]

\* Ffill without the forward fill: a minute without events stays NaN
Ffill_NoCarry(rows, m) ==
    IF m \in MinutesOf(rows) THEN <<"row", GroupMax(rows, m)>> ELSE NaN

\* .set_index("Minute").reindex(all_minutes).ffill() at minute m >= 0: the
\* group's row, else the filled row of minute m - 1, else NaN
RECURSIVE Ffill(_, _)
Ffill(rows, m) ==
    IF m \in MinutesOf(rows) THEN <<"row", GroupMax(rows, m)>>
    ELSE IF m <= 0 THEN NaN
    ELSE Ffill(rows, m - 1)

\* .fillna(0)
Fillna0(v) == IF v[1] = "nan" THEN [ScoreLocal |-> 0, ScoreVisit |-> 0] ELSE v[2]

\* lines 259-273 on the coerced timeline rows: one row per minute of
\* RangeIndex(0, max_minute + 1); empty when the frame is empty
MinuteByMinute(rows) ==
    IF rows = <<>> THEN <<>>
    ELSE LET max_minute == Max(MinutesOf(rows))
         IN [k \in 1..(IF max_minute >= 0 THEN max_minute + 1 ELSE 0) |->
                LET v == Fillna0(Ffill(rows, k - 1))
                IN [Minute |-> k - 1,
                    ScoreLocal |-> v.ScoreLocal,
                    ScoreVisit |-> v.ScoreVisit]]

\* lines 228-273: the timeline and the minute series, or the error raised
TimelineFrames(stats, moves) ==
    LET l == MatchTimelineList(stats, moves)
    IN IF IsRaised(l) THEN l
       ELSE LET t == MatchTimeline(l.rows)
            IN IF IsRaised(t) THEN t
               ELSE [outcome |-> "ok",
                     df_match_timeline |-> t.rows,
                     df_minute_by_minute |-> MinuteByMinute(t.rows)]

-----------------------------------------------------------------------------
(* _build_dataframes: global summary (lines 80-103) *)

\* the dict {} as a record of the keys the function reads
EmptyData == [score |-> Absent,
              shotsOfOneAttempted |-> Absent,
              shotsOfOneSuccessful |-> Absent]

\* dict.get(key, {}) of a dict-valued key, as the record of its keys
GetDict(d, key) == IF d[key] = Absent THEN EmptyData ELSE d[key][2]

\* line 87: full_match_stats.get("teams", [])
TeamsData(stats) == GetList(stats, "teams")

\* lines 81-103: strptime of a missing time raises TypeError; the team
\* names and final scores are read by position
GlobalSummary(stats) ==
    IF stats.time = Absent THEN Raised("TypeError", 82)
    ELSE LET teams_data == TeamsData(stats)
             local_data == IF Len(teams_data) >= 1
                           THEN GetDict(teams_data[1], "data")
                           ELSE EmptyData
             visit_data == IF Len(teams_data) >= 2
                           THEN GetDict(teams_data[2], "data")
                           ELSE EmptyData
         IN [outcome |-> "ok",
             row |-> [localTeamName |-> IF Len(teams_data) >= 1
                                        THEN teams_data[1].name ELSE "None",
                      visitTeamName |-> IF Len(teams_data) >= 2
                                        THEN teams_data[2].name ELSE "None",
                      finalScoreLocal |-> Get(local_data, "score"),
                      finalScoreVisit |-> Get(visit_data, "score")]]

-----------------------------------------------------------------------------
(* _build_dataframes: player statistics (lines 105-161) *)

\* line 115: sum(p.get("faults", 0) for p in player_periods)
TotalFouls(player) ==
    LET player_periods == GetList(player, "periods")
    IN SumSeq([i \in 1..Len(player_periods) |->
                  GetDefault(player_periods[i], "faults", IntV(0))[2]])

\* lines 117-139: the dict of one player
PlayerDict(team, player) ==
    LET player_data == GetDict(player, "data")
    IN [TeamID |-> team.teamIdIntern,
        PlayerName |-> player.name,
        TotalPoints |-> Get(player_data, "score"),
        MinutesPlayed |-> Get(player, "timePlayed"),
        TotalFouls |-> IntV(TotalFouls(player)),
        Shots1Attempted |-> Get(player_data, "shotsOfOneAttempted"),
        Shots1Successful |-> Get(player_data, "shotsOfOneSuccessful")]

\* lines 106-139: player_stats_list, the players of every team in order
RECURSIVE PlayerStatsList(_)
PlayerStatsList(teams_data) ==
    IF teams_data = <<>> THEN <<>>
    ELSE LET team == Head(teams_data)
             players == GetList(team, "players")
         IN [i \in 1..Len(players) |-> PlayerDict(team, players[i])]
            \o PlayerStatsList(Tail(teams_data))

\* line 141, pd.DataFrame(list of dicts): a column holding numbers and None
\* becomes a float column with NaN for None; a column of None only keeps None
ColumnCell(list, col, i) ==
    IF list[i][col] = PyNone /\ \E j \in 1..Len(list) : list[j][col] # PyNone
    THEN NaN
    ELSE list[i][col]

PlayerFrame(list) ==
    [i \in 1..Len(list) |->
        [list[i] EXCEPT !.TotalPoints = ColumnCell(list, "TotalPoints", i),
                        !.MinutesPlayed = ColumnCell(list, "MinutesPlayed", i),
                        !.Shots1Attempted = ColumnCell(list, "Shots1Attempted", i),
                        !.Shots1Successful = ColumnCell(list, "Shots1Successful", i)]]

Frac(n, d) == <<"frac", n, d>>

\* a / b on two cells: TypeError with None, NaN with NaN, else the quotient
Divide(a, b) ==
    IF a = PyNone \/ b = PyNone THEN <<"TypeError">>
    ELSE IF a = NaN \/ b = NaN THEN NaN
    ELSE Frac(a[2], b[2])

\* lines 144-149: 0 if not row[att] else row[succ] / row[att]
PlayerPct(row) ==
    IF ~Truthy(row.Shots1Attempted) THEN IntV(0)
    ELSE Divide(row.Shots1Successful, row.Shots1Attempted)

\* RoundHalfEven truncating instead (int() in place of round)
RoundHalfEven_Truncate(n, d) == n \div d

\* Series.round(0) of n/d (d > 0): to the nearest integer, ties to the even one
RoundHalfEven(n, d) ==
    LET q == n \div d
        r == n - q * d
    IN IF 2 * r < d THEN q
       ELSE IF 2 * r > d THEN q + 1
       ELSE IF q % 2 = 0 THEN q ELSE q + 1

\* lines 152-159, calc_val before rounding: pts - fouls + mins / 5 + bonus as
\* the exact quotient n/d, NaN when a cell is NaN, TypeError when one is None
CalcVal(row) ==
    LET pts == row.TotalPoints
        fouls == row.TotalFouls
        mins == row.MinutesPlayed
        att == row.Shots1Attempted
        succ == row.Shots1Successful
        zero == att = IntV(0)
    IN IF pts = PyNone \/ mins = PyNone \/ (~zero /\ (att = PyNone \/ succ = PyNone))
       THEN <<"TypeError">>
       ELSE IF pts = NaN \/ mins = NaN \/ (~zero /\ (att = NaN \/ succ = NaN))
       THEN NaN
       ELSE IF zero
       THEN Frac(5 * (pts[2] - fouls[2]) + mins[2], 5)
       ELSE Frac(5 * att[2] * (pts[2] - fouls[2]) + att[2] * mins[2] + 10 * succ[2],
                 5 * att[2])

\* line 161: .round(0) of the calc_val column
Val(row) ==
    LET v == CalcVal(row)
    IN IF v[1] = "frac" THEN IntV(RoundHalfEven(v[2], v[3])) ELSE v

\* lines 141-161: df_player_stats with "% shots 1" and "Val". A frame without
\* rows has no columns, and assigning it the apply result raises ValueError.
PlayerStats(teams_data) ==
    LET frame == PlayerFrame(PlayerStatsList(teams_data))
    IN IF frame = <<>> THEN Raised("ValueError", 144)
       ELSE IF \E i \in 1..Len(frame) : PlayerPct(frame[i]) = <<"TypeError">>
       THEN Raised("TypeError", 147)
       ELSE IF \E i \in 1..Len(frame) : CalcVal(frame[i]) = <<"TypeError">>
       THEN Raised("TypeError", 159)
       ELSE [outcome |-> "ok",
             rows |-> [i \in 1..Len(frame) |->
                          [TeamID |-> frame[i].TeamID,
                           PlayerName |-> frame[i].PlayerName,
                           TotalPoints |-> frame[i].TotalPoints,
                           MinutesPlayed |-> frame[i].MinutesPlayed,
                           TotalFouls |-> frame[i].TotalFouls,
                           Shots1Attempted |-> frame[i].Shots1Attempted,
                           Shots1Successful |-> frame[i].Shots1Successful,
                           Pct |-> PlayerPct(frame[i]),
                           Val |-> Val(frame[i])]]]

-----------------------------------------------------------------------------
(* _build_dataframes: team statistics (lines 163-226) *)

NA == <<"str", "N/A">>

\* lines 191-193 and 221-223: (succ1 / att1) if att1 > 0 else 0, the two read
\* with .get(key, 0)
TeamPct(data) ==
    LET att1 == GetDefault(data, "shotsOfOneAttempted", IntV(0))
        succ1 == GetDefault(data, "shotsOfOneSuccessful", IntV(0))
    IN IF att1[2] > 0 THEN Frac(succ1[2], att1[2]) ELSE IntV(0)

\* lines 171-194 (stat_type "Overall", period N/A) and 201-224 ("Period", idx + 1)
TeamStatRow(team, stat_type, period, data) ==
    [TeamID |-> team.teamIdIntern,
     TeamName |-> team.name,
     StatType |-> stat_type,
     Period |-> period,
     Score |-> Get(data, "score"),
     Shots1Attempted |-> Get(data, "shotsOfOneAttempted"),
     Shots1Successful |-> Get(data, "shotsOfOneSuccessful"),
     Pct |-> TeamPct(data)]

\* PeriodNum without the + 1
PeriodNum_ZeroBased(idx) == idx

\* line 199: period_num = idx + 1, idx the zero-based index of enumerate
PeriodNum(idx) == idx + 1

\* lines 166-224, one team: the Overall row, then one row per period
TeamRows(team) ==
    LET periods == GetList(team, "periods")
    IN <<TeamStatRow(team, "Overall", NA, GetDict(team, "data"))>>
       \o [k \in 1..Len(periods) |->
              TeamStatRow(team, "Period", IntV(PeriodNum(k - 1)), periods[k][2])]

\* lines 164-226: team_stats_list over every team in order
RECURSIVE TeamStatsList(_)
TeamStatsList(teams_data) ==
    IF teams_data = <<>> THEN <<>>
    ELSE TeamRows(Head(teams_data)) \o TeamStatsList(Tail(teams_data))

-----------------------------------------------------------------------------
(* _build_dataframes (lines 75-282) *)

BuildDataframes(stats, moves) ==
    LET g == GlobalSummary(stats)
    IN IF IsRaised(g) THEN g
       ELSE LET p == PlayerStats(TeamsData(stats))
            IN IF IsRaised(p) THEN p
               ELSE LET t == TimelineFrames(stats, moves)
                    IN IF IsRaised(t) THEN t
                       ELSE [outcome |-> "returned",
                             df_global_summary |-> g.row,
                             df_team_stats |-> TeamStatsList(TeamsData(stats)),
                             df_player_stats |-> p.rows,
                             df_match_timeline |-> t.df_match_timeline,
                             df_minute_by_minute |-> t.df_minute_by_minute]

-----------------------------------------------------------------------------
(* Payloads the normalizer is run on *)

SeqsUpTo(S, n) == UNION {[1..k -> S] : k \in 0..n}

Shots(att, succ) ==
    [score |-> IntV(20), shotsOfOneAttempted |-> att, shotsOfOneSuccessful |-> succ]

\* ---- move logs ----
\* moves as the site sends them: a known team, a minute, a running score or none
CleanScores == {Absent, StrV(<<"5", "-", "0">>), StrV(<<"3", "-", "4">>)}
CleanMoves ==
    [idTeam : {IntV(1)}, min : {IntV(m) : m \in 0..MaxMinute}, score : CleanScores]

\* every variant of the fields of a move the code distinguishes
MinuteFields ==
    {IntV(0), IntV(MaxMinute), Absent, PyNone, StrV(<<"2">>), StrV(<<"x">>)}
ScoreFields ==
    {Absent, PyNone, IntV(7), StrV(<<>>), StrV(<<"7">>),
     StrV(<<"4", "5", "-", "4", "0">>),
     StrV(<<" ", "5", " ", "-", " ", "2", " ">>),
     StrV(<<"a", "-", "b">>),
     StrV(<<"1", "-", "2", "-", "3">>),
     StrV(<<"-", "5">>),
     StrV(<<"5", "-">>)}
DirtyMoves == [idTeam : {IntV(1), IntV(9)}, min : MinuteFields, score : ScoreFields]

MovesInputs == SeqsUpTo(CleanMoves, MaxMoves) \cup SeqsUpTo(DirtyMoves, MaxDirtyMoves)

\* ---- stats payloads ----
StdPlayer ==
    [name |-> "P", timePlayed |-> IntV(25), data |-> DictV(Shots(IntV(4), IntV(3))),
     periods |-> ListV(<<[faults |-> IntV(3)]>>)]

TeamDatas == {Absent, DictV(Shots(IntV(0), IntV(0))), DictV(Shots(IntV(4), IntV(3)))}
PeriodDatas == {DictV(Shots(IntV(0), IntV(0))), DictV(Shots(IntV(2), IntV(1)))}
PeriodLists == {Absent} \cup {ListV(s) : s \in SeqsUpTo(PeriodDatas, MaxPeriods)}
TeamShapes == [data : TeamDatas, periods : PeriodLists]

Team(i, shape, players) ==
    [teamIdIntern |-> IntV(i), name |-> IF i = 1 THEN "Local" ELSE "Visit",
     data |-> shape.data, periods |-> shape.periods, players |-> players]

\* payloads that vary the teams: each team has the standard player
TeamPayloads ==
    {[time |-> <<"str", "Nov 3, 2025 6:00:00 PM">>,
      teams |-> ListV([i \in 1..Len(f) |-> Team(i, f[i], ListV(<<StdPlayer>>))])] :
        f \in SeqsUpTo(TeamShapes, MaxTeams)}

PlayerShots ==
    {<<Absent, Absent>>, <<IntV(0), IntV(0)>>, <<IntV(4), IntV(3)>>,
     <<IntV(4), IntV(1)>>}
PlayerFouls ==
    {Absent, ListV(<<[faults |-> IntV(3)]>>),
     ListV(<<[faults |-> IntV(1)]>>) , ListV(<<[faults |-> IntV(1)], [faults |-> IntV(2)]>>)}
PlayerShapes == [timePlayed : {IntV(25), IntV(12)}, periods : PlayerFouls, shots : PlayerShots]

Player(shape) ==
    [name |-> "P", timePlayed |-> shape.timePlayed,
     data |-> DictV(Shots(shape.shots[1], shape.shots[2])),
     periods |-> shape.periods]

\* payloads that vary the roster of one team
PlayerPayloads ==
    {[time |-> <<"str", "Nov 3, 2025 6:00:00 PM">>,
      teams |-> ListV(<<Team(1, [data |-> Absent, periods |-> Absent],
                             ListV([i \in 1..Len(f) |-> Player(f[i])]))>>)] :
        f \in SeqsUpTo(PlayerShapes, MaxPlayers)}

\* payloads without the "time" or the "teams" key
SparsePayloads ==
    {[time |-> Absent, teams |-> Absent],
     [time |-> <<"str", "Nov 3, 2025 6:00:00 PM">>, teams |-> Absent]}

StatsInputs == TeamPayloads \cup PlayerPayloads \cup SparsePayloads

\* the payloads of the end-to-end scenario: two teams without periods, and
\* three moves at minutes 2, 2, 5
FixtureStats ==
    [time |-> <<"str", "Nov 3, 2025 6:00:00 PM">>,
     teams |-> ListV(<<Team(1, [data |-> Absent, periods |-> Absent], ListV(<<StdPlayer>>)),
                       Team(2, [data |-> Absent, periods |-> Absent], ListV(<<StdPlayer>>))>>)]
FixtureMoves ==
    <<[idTeam |-> IntV(1), min |-> IntV(2), score |-> StrV(<<"5", "-", "0">>)],
      [idTeam |-> IntV(2), min |-> IntV(2), score |-> StrV(<<"5", "-", "2">>)],
      [idTeam |-> IntV(1), min |-> IntV(5), score |-> StrV(<<"1", "0", "-", "4">>)]>>

-----------------------------------------------------------------------------
(* The normalizer as a state machine: one call of _build_dataframes *)

NoResult == [outcome |-> "none"]
NoValue == <<"unset">>

\* the dashboard before any run of main(): nothing cached, nothing shown
MatchUrls == {"match/a", "match/b"}
NoDatasets == [outcome |-> "none"]
NoCache == [u \in {} |-> NoDatasets]
AppIdle ==
    /\ app_pc = "idle"
    /\ match_url = "match/a"
    /\ page = [u \in MatchUrls |-> 0]
    /\ cache = NoCache
    /\ app_data = NoDatasets
    /\ excel_bytes = NoDatasets
    /\ sessions = 0

\* the pipeline variables while only the normalizer is run
PipelineIdle ==
    /\ pc = "idle"
    /\ playwright = "none" /\ browser = "none" /\ observer = FALSE
    /\ arrived = 0 /\ inflight = {} /\ handled = <<>>
    /\ captured_api_responses = <<>>
    /\ exc = "none" /\ responses = NoValue /\ located = NoValue
    /\ build_calls = <<>>

InitMoves ==
    /\ stats_payload = FixtureStats
    /\ moves_payload \in MovesInputs
    /\ norm_pc = "call"
    /\ dataframes = NoResult
    /\ PipelineIdle
    /\ AppIdle

InitStats ==
    /\ stats_payload \in StatsInputs
    /\ moves_payload = FixtureMoves
    /\ norm_pc = "call"
    /\ dataframes = NoResult
    /\ PipelineIdle
    /\ AppIdle

Build ==
    /\ norm_pc = "call"
    /\ dataframes' = BuildDataframes(stats_payload, moves_payload)
    /\ norm_pc' = "done"
    /\ UNCHANGED <<stats_payload, moves_payload>>
    /\ UNCHANGED pipe_vars
    /\ UNCHANGED app_vars

NextNorm == Build

SpecMoves == InitMoves /\ [][NextNorm]_vars
SpecStats == InitStats /\ [][NextNorm]_vars

Returned == norm_pc = "done" /\ dataframes.outcome = "returned"

-----------------------------------------------------------------------------
(* Claims about the timeline and the minute-by-minute series (SpecMoves) *)

EventsAt(tl, m) == {i \in 1..Len(tl) : tl[i].Minute = m}

\* C1: whenever _build_dataframes returns, both score columns of the
\* minute-by-minute series are non-decreasing from each row to the next.
C1_SeriesNonDecreasing ==
    Returned =>
        LET s == dataframes.df_minute_by_minute
        IN \A k \in 1..(Len(s) - 1) :
              /\ s[k + 1].ScoreLocal >= s[k].ScoreLocal
              /\ s[k + 1].ScoreVisit >= s[k].ScoreVisit

\* the score pair the series is to hold at minute m of timeline tl: the
\* column maxima over the events of minute m; else the pair of the greatest
\* earlier minute with events; else (0, 0)
ExpectedPair(tl, m) ==
    LET at(n) == <<Max({tl[i].ScoreLocal : i \in EventsAt(tl, n)}),
                   Max({tl[i].ScoreVisit : i \in EventsAt(tl, n)})>>
        earlier == {n \in MinutesOf(tl) : n < m}
    IN IF EventsAt(tl, m) # {} THEN at(m)
       ELSE IF earlier # {} THEN at(Max(earlier))
       ELSE <<0, 0>>

\* C2: for a non-empty timeline with maximum minute M the series has exactly
\* the rows of minutes 0..M in ascending order, the row of minute m holding
\* the maximum score pair of the events of minute m, else the pair of the
\* greatest earlier minute with events, else (0, 0); the events at minutes
\* 2, 2, 5 with scores 5-0, 5-2, 10-4 give (0,0),(0,0),(5,2),(5,2),(5,2),(10,4).
C2_SeriesDenseForwardFilled ==
    /\ Returned =>
          LET tl == dataframes.df_match_timeline
              s == dataframes.df_minute_by_minute
              M == Max(MinutesOf(tl))
          IN /\ Len(s) = M + 1
             /\ \A m \in 0..M :
                   /\ s[m + 1].Minute = m
                   /\ <<s[m + 1].ScoreLocal, s[m + 1].ScoreVisit>> = ExpectedPair(tl, m)
    /\ LET s == TimelineFrames(FixtureStats, FixtureMoves).df_minute_by_minute
       IN [k \in 1..Len(s) |-> <<s[k].Minute, s[k].ScoreLocal, s[k].ScoreVisit>>]
          = <<<<0, 0, 0>>, <<1, 0, 0>>, <<2, 5, 2>>, <<3, 5, 2>>, <<4, 5, 2>>, <<5, 10, 4>>>>

\* a returned series with a minute before the first event, a minute holding
\* two events with different scores, and a later minute without events
C2_Witness ==
    /\ Returned
    /\ LET tl == dataframes.df_match_timeline
       IN /\ 0 \notin MinutesOf(tl)
          /\ \E m \in MinutesOf(tl) :
                /\ \E i, j \in EventsAt(tl, m) : tl[i].ScoreLocal # tl[j].ScoreLocal
                /\ m + 1 \notin MinutesOf(tl)
                /\ m + 2 \in MinutesOf(tl)

\* C3: with no moves _build_dataframes returns normally, with an empty
\* timeline and an empty minute-by-minute series.
C3_EmptyLogReturns ==
    (norm_pc = "done" /\ moves_payload = <<>>) =>
        /\ dataframes.outcome = "returned"
        /\ dataframes.df_match_timeline = <<>>
        /\ dataframes.df_minute_by_minute = <<>>

\* a score field of the form "<local>-<visit>": exactly one separator, an
\* integer literal (blanks around it allowed) on each side
IsLiteral(s) == LET t == Strip(s) IN t # <<>> /\ \A i \in 1..Len(t) : IsDigit(t[i])
SeparatorsOf(s) == {i \in 1..Len(s) : s[i] = "-"}
WellFormedScore(v) ==
    /\ IsStr(v)
    /\ Cardinality(SeparatorsOf(v[2])) = 1
    /\ LET k == CHOOSE i \in SeparatorsOf(v[2]) : TRUE
       IN /\ IsLiteral(SubSeq(v[2], 1, k - 1))
          /\ IsLiteral(SubSeq(v[2], k + 1, Len(v[2])))
ClaimedScore(v) ==
    IF WellFormedScore(v)
    THEN LET k == CHOOSE i \in SeparatorsOf(v[2]) : TRUE
         IN <<DecimalValue(Strip(SubSeq(v[2], 1, k - 1))),
              DecimalValue(Strip(SubSeq(v[2], k + 1, Len(v[2]))))>>
    ELSE <<0, 0>>

\* C4: every move yields exactly one timeline event, whose score pair is the
\* parsed (local, visit) of a well-formed "<local>-<visit>" field and (0, 0)
\* for an absent, empty or otherwise malformed one; no score makes
\* _build_dataframes fail.
C4_ScoreParsedOrDefaulted ==
    (norm_pc = "done" /\ moves_payload # <<>>) =>
        /\ dataframes.outcome = "returned"
        /\ Len(dataframes.df_match_timeline) = Len(moves_payload)
        /\ \A i \in 1..Len(moves_payload) :
              <<dataframes.df_match_timeline[i].ScoreLocal,
                dataframes.df_match_timeline[i].ScoreVisit>>
              = ClaimedScore(moves_payload[i].score)

-----------------------------------------------------------------------------
(* Claims about the team and player statistics (SpecStats) *)

InUnit(p) == p = IntV(0) \/ (p[1] = "frac" /\ 0 <= p[2] /\ p[2] <= p[3])
IsZeroPct(p) == p = IntV(0) \/ (p[1] = "frac" /\ p[2] = 0)
\* the attempts cell of a row is 0, or the key was absent (None, or NaN in a
\* numeric column)
NoAttempts(row) == row.Shots1Attempted \in {IntV(0), PyNone, NaN}

\* C7: in the output, "% shots 1" of every team row and every player row lies
\* in [0, 1] and is exactly 0 when the row's one-point attempts are 0 or
\* absent; and the percentage computation never raises.
C7_PctInUnitInterval ==
    /\ Returned =>
          /\ \A i \in 1..Len(dataframes.df_team_stats) :
                LET r == dataframes.df_team_stats[i]
                IN InUnit(r.Pct) /\ (NoAttempts(r) => IsZeroPct(r.Pct))
          /\ \A i \in 1..Len(dataframes.df_player_stats) :
                LET r == dataframes.df_player_stats[i]
                IN InUnit(r.Pct) /\ (NoAttempts(r) => IsZeroPct(r.Pct))
    /\ (norm_pc = "done" /\ dataframes.outcome = "raised") =>
          dataframes.line \notin {147, 193, 223}

\* the players of a payload, team by team
RECURSIVE PlayersOf(_)
PlayersOf(teams_data) ==
    IF teams_data = <<>> THEN <<>>
    ELSE GetList(Head(teams_data), "players") \o PlayersOf(Tail(teams_data))

NumericRow(r) ==
    /\ IsInt(r.TotalPoints) /\ IsInt(r.MinutesPlayed)
    /\ IsInt(r.Shots1Attempted) /\ IsInt(r.Shots1Successful)

\* pts - fouls + mins / 5 + bonus of a row over the denominator ValDen(r)
ValDen(r) == IF r.Shots1Attempted[2] = 0 THEN 5 ELSE 5 * r.Shots1Attempted[2]
ValNum(r) ==
    ValDen(r) * (r.TotalPoints[2] - r.TotalFouls[2])
    + (ValDen(r) \div 5) * r.MinutesPlayed[2]
    + (IF r.Shots1Attempted[2] = 0 THEN 0 ELSE 10 * r.Shots1Successful[2])

Abs(x) == IF x < 0 THEN -x ELSE x

\* C8: for every player row, Val is points - Total Fouls + minutes / 5 + bonus
\* rounded once, at the end, to the nearest integer (bonus 0 without one-point
\* attempts, else 2 * successes / attempts), and Total Fouls is the sum of the
\* player's per-period fouls; points 20, fouls 3, minutes 25, 3 of 4 give 24.
C8_ValRoundedOnce ==
    /\ Returned =>
          LET players == PlayersOf(TeamsData(stats_payload))
          IN \A i \in 1..Len(dataframes.df_player_stats) :
                LET r == dataframes.df_player_stats[i]
                    fouls == GetList(players[i], "periods")
                IN /\ r.TotalFouls
                        = IntV(SumSeq([k \in 1..Len(fouls) |-> fouls[k].faults[2]]))
                   /\ NumericRow(r) =>
                         /\ IsInt(r.Val)
                         /\ 2 * Abs(r.Val[2] * ValDen(r) - ValNum(r)) <= ValDen(r)
                         /\ (2 * ValNum(r) = 47 * ValDen(r)) => r.Val[2] = 24
    /\ Val([TotalPoints |-> IntV(20), TotalFouls |-> IntV(3), MinutesPlayed |-> IntV(25),
            Shots1Attempted |-> IntV(4), Shots1Successful |-> IntV(3)]) = IntV(24)

\* a returned frame with a row whose fouls are summed over two periods and
\* whose unrounded Val is not an integer
C8_Witness ==
    /\ Returned
    /\ \E i \in 1..Len(dataframes.df_player_stats) :
          LET r == dataframes.df_player_stats[i]
          IN /\ NumericRow(r)
             /\ Len(GetList(PlayersOf(TeamsData(stats_payload))[i], "periods")) = 2
             /\ r.Shots1Attempted[2] > 0
             /\ ValNum(r) % ValDen(r) # 0

TeamStatRowsOf(id) ==
    SelectSeq(dataframes.df_team_stats, LAMBDA r : r.TeamID = id)

\* C9: each team has exactly one Overall row, ahead of its period rows, and
\* one Period row per entry of its period list, numbered 1..n in list order;
\* a missing or empty period list gives no period rows and no error.
C9_OverallThenPeriods ==
    /\ Returned =>
          LET teams_data == TeamsData(stats_payload)
          IN /\ \A t \in 1..Len(teams_data) :
                   LET rows == TeamStatRowsOf(teams_data[t].teamIdIntern)
                       periods == GetList(teams_data[t], "periods")
                   IN /\ Len(rows) = Len(periods) + 1
                      /\ rows[1].StatType = "Overall"
                      /\ rows[1].Period = NA
                      /\ \A k \in 1..Len(periods) :
                            /\ rows[k + 1].StatType = "Period"
                            /\ rows[k + 1].Period = IntV(k)
                            /\ rows[k + 1].Shots1Attempted
                                  = Get(periods[k][2], "shotsOfOneAttempted")
             /\ Len(dataframes.df_team_stats)
                   = SumSeq([t \in 1..Len(teams_data) |->
                                Len(GetList(teams_data[t], "periods")) + 1])
    /\ (norm_pc = "done" /\ dataframes.outcome = "raised") =>
          ~(dataframes.line \in 163..226)

\* a returned frame of two teams, one without a period list and one with two
\* periods of different data
C9_Witness ==
    /\ Returned
    /\ LET teams_data == TeamsData(stats_payload)
       IN /\ Len(teams_data) = 2
          /\ teams_data[1].periods = Absent
          /\ teams_data[2].periods # Absent
          /\ Len(teams_data[2].periods[2]) = 2
          /\ teams_data[2].periods[2][1] # teams_data[2].periods[2][2]
          /\ Len(dataframes.df_team_stats) = 4

-----------------------------------------------------------------------------
(* _extract_full_match_stats_and_moves (lines 49-70) *)

\* A URL is modelled by the set of signatures it contains: `sig in url` is
\* sig \in url.
StatsSig == "getJsonWithMatchStats"
MovesSig == "getJsonWithMatchMoves"
Urls == SUBSET {StatsSig, MovesSig}

Json(k) == <<"json", k>>

\* lines 58-63: the loop, from the locals (stats, moves) over the rest of the list
RECURSIVE ScanResponses(_, _, _)
ScanResponses(resps, stats, moves) ==
    IF resps = <<>> THEN <<stats, moves>>
    ELSE LET resp == Head(resps)
         IN IF StatsSig \in resp.url
            THEN ScanResponses(Tail(resps), resp.json_data, moves)
            ELSE IF MovesSig \in resp.url
            THEN ScanResponses(Tail(resps), stats, resp.json_data)
            ELSE ScanResponses(Tail(resps), stats, moves)

\* ExtractFullMatchStatsAndMoves testing the moves payload before the stats payload
ExtractFullMatchStatsAndMoves_MovesFirst(resps) ==
    LET found == ScanResponses(resps, PyNone, PyNone)
    IN IF found[2] = PyNone THEN <<"RuntimeError", MovesSig>>
       ELSE IF found[1] = PyNone THEN <<"RuntimeError", StatsSig>>
       ELSE <<"ok", found[1], found[2]>>

\* lines 55-70: the pair returned, or the RuntimeError raised, which names a signature
ExtractFullMatchStatsAndMoves(resps) ==
    LET found == ScanResponses(resps, PyNone, PyNone)
    IN IF found[1] = PyNone THEN <<"RuntimeError", StatsSig>>
       ELSE IF found[2] = PyNone THEN <<"RuntimeError", MovesSig>>
       ELSE <<"ok", found[1], found[2]>>

-----------------------------------------------------------------------------
(* get_match_dataframes (lines 287-294) after the capture *)

\* line 293: locate the two payloads; a RuntimeError ends the call
Extract ==
    /\ pc = "extract"
    /\ located' = ExtractFullMatchStatsAndMoves(responses)
    /\ pc' = IF located'[1] = "ok" THEN "build" ELSE "failed"
    /\ UNCHANGED <<responses, build_calls>>
    /\ UNCHANGED session_vars
    /\ UNCHANGED norm_vars
    /\ UNCHANGED app_vars

\* line 294: _build_dataframes(full_match_stats, full_match_moves), the
\* payloads being opaque here (SpecMoves and SpecStats run it on payloads)
BuildCall ==
    /\ pc = "build"
    /\ build_calls' = Append(build_calls, <<located[2], located[3]>>)
    /\ pc' = "done"
    /\ UNCHANGED <<responses, located>>
    /\ UNCHANGED session_vars
    /\ UNCHANGED norm_vars
    /\ UNCHANGED app_vars

NextLocate == Extract \/ BuildCall

\* the normalizer variables while the pipeline is run on opaque payloads
NormalizerIdle ==
    /\ stats_payload = NoValue /\ moves_payload = NoValue
    /\ norm_pc = "idle" /\ dataframes = NoResult

\* captured lists: any URL, a JSON null body or an object of its own
CapturedLists ==
    UNION {{[i \in 1..n |-> [url |-> u[i], json_data |-> IF b[i] THEN Json(i) ELSE PyNone]] :
               u \in [1..n -> Urls], b \in [1..n -> BOOLEAN]} : n \in 0..MaxCaptured}

InitLocate ==
    /\ NormalizerIdle
    /\ AppIdle
    /\ pc = "extract"
    /\ playwright = "stopped" /\ browser = "closed" /\ observer = TRUE
    /\ arrived = 0 /\ inflight = {} /\ handled = <<>>
    /\ captured_api_responses = <<>>
    /\ exc = "none"
    /\ responses \in CapturedLists
    /\ located = NoValue
    /\ build_calls = <<>>

SpecLocate == InitLocate /\ [][NextLocate]_vars

-----------------------------------------------------------------------------
(* Claims about locating the payloads (SpecLocate) *)

Carrying(sig) == {i \in 1..Len(responses) : sig \in responses[i].url}
Located == pc \in {"build", "done", "failed"}
LocateFailed(sig) == pc = "failed" /\ located = <<"RuntimeError", sig>>
NeverBuilt == pc \notin {"build", "done"} /\ build_calls = <<>>

\* C5 as stated: without a URL carrying the stats signature the locator
\* fails with the error naming the stats payload, without one carrying the
\* moves signature it fails with the error naming the moves payload, and in
\* either case _build_dataframes is never run.
C5_MissingPayloadNamed ==
    Located =>
        /\ Carrying(StatsSig) = {} => LocateFailed(StatsSig)
        /\ Carrying(MovesSig) = {} => LocateFailed(MovesSig)
        /\ (Carrying(StatsSig) = {} \/ Carrying(MovesSig) = {}) => NeverBuilt

\* the stats body the scan ends with is an object: some URL carries the stats
\* signature and the last such response has a body other than JSON null
StatsBodyFound ==
    /\ Carrying(StatsSig) # {}
    /\ responses[Max(Carrying(StatsSig))].json_data # PyNone

\* C5 as amended: without a URL carrying the stats signature the locator
\* fails with the error naming the stats payload; without one carrying the
\* moves signature it fails too, the error naming the moves payload when a
\* stats body other than null was found and the stats payload otherwise; in
\* either case _build_dataframes is never run.
C5_MissingPayloadNamedStatsFirst ==
    Located =>
        /\ Carrying(StatsSig) = {} => LocateFailed(StatsSig)
        /\ Carrying(MovesSig) = {} =>
              IF StatsBodyFound THEN LocateFailed(MovesSig) ELSE LocateFailed(StatsSig)
        /\ (Carrying(StatsSig) = {} \/ Carrying(MovesSig) = {}) => NeverBuilt

\* the locator failed naming the moves payload, a stats body being found, and
\* nothing was built
C5_Witness ==
    /\ LocateFailed(MovesSig)
    /\ Carrying(MovesSig) = {}
    /\ StatsBodyFound
    /\ Len(responses) >= 2
    /\ build_calls = <<>>

\* C6: for every captured list in which both signatures occur and several
\* responses carry the same one, the locator returns, for each signature, the
\* body of the last response carrying it.
C6_LastMatchWins ==
    (/\ Located
     /\ Carrying(StatsSig) # {} /\ Carrying(MovesSig) # {}
     /\ \E sig \in {StatsSig, MovesSig} : Cardinality(Carrying(sig)) >= 2) =>
        located = <<"ok", responses[Max(Carrying(StatsSig))].json_data,
                          responses[Max(Carrying(MovesSig))].json_data>>

-----------------------------------------------------------------------------
(* _capture_api_responses (lines 10-46) and handle_response (lines 21-39) *)

\* how far the handle_response call of one response got (an entry of handled):
\*   <<"unobserved">>          no observer was registered, the handler never ran
\*   <<"not_json">>            returned at line 27
\*   <<"reading", url>>        awaiting response.json() at line 30
\*   <<"read_failed">>         response.json() raised, returned at line 32
\*   <<"appended", pos, url>>  lines 34-39 ran, pos the index of the new entry
\*   <<"ended">>               still awaiting when the browser went away
\* the body reads still pending when the browser is closed never complete
EndPending(h) ==
    [id \in DOMAIN h |-> IF h[id][1] = "reading" THEN <<"ended">> ELSE h[id]]

\* what response.headers.get("content-type", "") gives, "" also standing
\* for the headers raising (lines 22-25)
ContentTypes == {"application/json", "text/html", ""}
\* line 26: "json" in content_type
HasJson(content_type) == content_type = "application/json"
\* response.url of the responses the match page receives: the stats endpoint,
\* the moves endpoint, or anything else (the capture never looks into a URL)
PageUrls == {{StatsSig}, {MovesSig}, {}}

\* line 17: enter async_playwright()
EnterPlaywright ==
    /\ pc = "start"
    /\ playwright' = "running"
    /\ pc' = "launch"
    /\ UNCHANGED <<browser, observer, arrived, inflight, handled,
                   captured_api_responses, exc, responses, located, build_calls>>
    /\ UNCHANGED norm_vars
    /\ UNCHANGED app_vars

\* line 18: await p.chromium.launch(headless=True), which may fail
Launch ==
    /\ pc = "launch"
    /\ \E ok \in BOOLEAN :
          IF ok
          THEN browser' = "open" /\ pc' = "new_page" /\ exc' = exc
          ELSE browser' = browser /\ pc' = "exit" /\ exc' = "LaunchError"
    /\ UNCHANGED <<playwright, observer, arrived, inflight, handled,
                   captured_api_responses, responses, located, build_calls>>
    /\ UNCHANGED norm_vars
    /\ UNCHANGED app_vars

\* line 19: page = await browser.new_page()
NewPage ==
    /\ pc = "new_page"
    /\ pc' = "register"
    /\ UNCHANGED <<playwright, browser, observer, arrived, inflight, handled,
                   captured_api_responses, exc, responses, located, build_calls>>
    /\ UNCHANGED norm_vars
    /\ UNCHANGED app_vars

\* line 41: page.on("response", handle_response)
RegisterObserver ==
    /\ pc = "register"
    /\ observer' = TRUE
    /\ pc' = "goto"
    /\ UNCHANGED <<playwright, browser, arrived, inflight, handled,
                   captured_api_responses, exc, responses, located, build_calls>>
    /\ UNCHANGED norm_vars
    /\ UNCHANGED app_vars

\* line 42: page.goto(match_url) starts the navigation
GotoStart ==
    /\ pc = "goto"
    /\ pc' = "navigating"
    /\ UNCHANGED <<playwright, browser, observer, arrived, inflight, handled,
                   captured_api_responses, exc, responses, located, build_calls>>
    /\ UNCHANGED norm_vars
    /\ UNCHANGED app_vars

\* line 42: await page.goto(match_url) ends: the page loaded, or the
\* navigation failed and the exception leaves the async with block
GotoDone ==
    /\ pc = "navigating"
    /\ \E ok \in BOOLEAN :
          IF ok
          THEN pc' = "waiting" /\ exc' = exc
          ELSE pc' = "exit" /\ exc' = "NavigationError"
    /\ UNCHANGED <<playwright, browser, observer, arrived, inflight, handled,
                   captured_api_responses, responses, located, build_calls>>
    /\ UNCHANGED norm_vars
    /\ UNCHANGED app_vars

\* line 43: await page.wait_for_timeout(8000) ends, and line 44 calls
\* browser.close()
WaitDone ==
    /\ pc = "waiting"
    /\ pc' = "closing"
    /\ UNCHANGED <<playwright, browser, observer, arrived, inflight, handled,
                   captured_api_responses, exc, responses, located, build_calls>>
    /\ UNCHANGED norm_vars
    /\ UNCHANGED app_vars

\* line 44: await browser.close() ends: the browser is closed, and the body
\* reads still pending fail (their handlers return at line 32)
CloseDone ==
    /\ pc = "closing"
    /\ browser' = "closed"
    /\ inflight' = {}
    /\ handled' = EndPending(handled)
    /\ pc' = "exit"
    /\ UNCHANGED <<playwright, observer, arrived, captured_api_responses,
                   exc, responses, located, build_calls>>
    /\ UNCHANGED norm_vars
    /\ UNCHANGED app_vars

\* ExitContext leaving the launched browser as it is (no teardown on exit)
ExitContext_KeepsBrowser ==
    /\ pc = "exit"
    /\ playwright' = "stopped"
    /\ inflight' = {}
    /\ handled' = EndPending(handled)
    /\ IF exc = "none"
       THEN responses' = captured_api_responses /\ pc' = "extract"
       ELSE responses' = responses /\ pc' = "failed"
    /\ UNCHANGED <<browser, observer, arrived, captured_api_responses, exc,
                   located, build_calls>>
    /\ UNCHANGED norm_vars
    /\ UNCHANGED app_vars

\* line 17, leaving the async with block (normally or by an exception):
\* async_playwright() stops its driver, which closes the browsers it launched
\* and fails the body reads still pending; then line 46 returns the list to
\* line 292, or the exception propagates out of get_match_dataframes
ExitContext ==
    /\ pc = "exit"
    /\ playwright' = "stopped"
    /\ browser' = IF browser = "open" THEN "closed" ELSE browser
    /\ inflight' = {}
    /\ handled' = EndPending(handled)
    /\ IF exc = "none"
       THEN responses' = captured_api_responses /\ pc' = "extract"
       ELSE responses' = responses /\ pc' = "failed"
    /\ UNCHANGED <<observer, arrived, captured_api_responses, exc, located, build_calls>>
    /\ UNCHANGED norm_vars
    /\ UNCHANGED app_vars

\* the page receives a response while it loads or during the observation
\* window; handle_response (lines 21-27) runs up to its await: a response
\* without a JSON content type is dropped, another one awaits response.json()
ResponseArrives ==
    /\ pc \in {"navigating", "waiting"}
    /\ arrived < MaxResponses
    /\ arrived' = arrived + 1
    /\ \E url \in PageUrls, content_type \in ContentTypes :
          /\ inflight' = IF observer /\ HasJson(content_type)
                         THEN inflight \cup {[id |-> arrived + 1, url |-> url]}
                         ELSE inflight
          /\ handled' = Append(handled,
                               IF ~observer THEN <<"unobserved">>
                               ELSE IF HasJson(content_type) THEN <<"reading", url>>
                               ELSE <<"not_json">>)
    /\ UNCHANGED <<pc, playwright, browser, observer, captured_api_responses,
                   exc, responses, located, build_calls>>
    /\ UNCHANGED norm_vars
    /\ UNCHANGED app_vars

\* BodyRead without the try/except of lines 29-32: a failing response.json()
\* ends the capture with its exception
BodyRead_Raises ==
    /\ pc \in {"navigating", "waiting", "closing"}
    /\ \E h \in inflight, outcome \in {"object", "null", "exception"} :
          /\ inflight' = inflight \ {h}
          /\ handled' = [handled EXCEPT ![h.id] =
                            IF outcome = "exception" THEN <<"read_failed">>
                            ELSE <<"appended", Len(captured_api_responses) + 1, h.url>>]
          /\ captured_api_responses' =
                IF outcome = "exception"
                THEN captured_api_responses
                ELSE Append(captured_api_responses,
                            [url |-> h.url,
                             json_data |-> IF outcome = "object"
                                           THEN Json(h.id) ELSE PyNone])
          /\ exc' = IF outcome = "exception" THEN "ResponseError" ELSE exc
          /\ pc' = IF outcome = "exception" THEN "exit" ELSE pc
    /\ UNCHANGED <<playwright, browser, observer, arrived,
                   responses, located, build_calls>>
    /\ UNCHANGED norm_vars
    /\ UNCHANGED app_vars

\* lines 29-39: a pending response.json() ends: with the parsed body (an
\* object of its own, or JSON null), which is appended with the URL, or with
\* an exception, on which the handler returns
BodyRead ==
    /\ pc \in {"navigating", "waiting", "closing"}
    /\ \E h \in inflight, outcome \in {"object", "null", "exception"} :
          /\ inflight' = inflight \ {h}
          /\ handled' = [handled EXCEPT ![h.id] =
                            IF outcome = "exception" THEN <<"read_failed">>
                            ELSE <<"appended", Len(captured_api_responses) + 1, h.url>>]
          /\ captured_api_responses' =
                IF outcome = "exception"
                THEN captured_api_responses
                ELSE Append(captured_api_responses,
                            [url |-> h.url,
                             json_data |-> IF outcome = "object"
                                           THEN Json(h.id) ELSE PyNone])
    /\ UNCHANGED <<pc, playwright, browser, observer, arrived,
                   exc, responses, located, build_calls>>
    /\ UNCHANGED norm_vars
    /\ UNCHANGED app_vars

\* the steps of the coroutine _capture_api_responses itself
MainStep ==
    \/ EnterPlaywright \/ Launch \/ NewPage \/ RegisterObserver
    \/ GotoStart \/ GotoDone \/ WaitDone \/ CloseDone \/ ExitContext

NextCapture == MainStep \/ ResponseArrives \/ BodyRead \/ Extract \/ BuildCall

InitCapture ==
    /\ NormalizerIdle
    /\ AppIdle
    /\ pc = "start"
    /\ playwright = "none" /\ browser = "none" /\ observer = FALSE
    /\ arrived = 0 /\ inflight = {} /\ handled = <<>>
    /\ captured_api_responses = <<>>
    /\ exc = "none" /\ responses = NoValue /\ located = NoValue
    /\ build_calls = <<>>

SpecCapture == InitCapture /\ [][NextCapture]_vars

\* asyncio runs the coroutine to its end: each await of it ends
FairCapture == SpecCapture /\ WF_vars(MainStep) /\ WF_vars(Extract) /\ WF_vars(BuildCall)

-----------------------------------------------------------------------------
(* Claims about the capture session (SpecCapture, FairCapture) *)

\* C10: in every execution of _capture_api_responses a launched browser is
\* eventually closed, also when the navigation fails; and when the navigation
\* fails the call ends in an error and no responses are returned.
C10_BrowserTornDown ==
    /\ [](browser = "open" => <>(browser = "closed"))
    /\ [](exc = "NavigationError" => <>(pc = "failed"))
    /\ [](exc = "NavigationError" =>
             responses = NoValue /\ located = NoValue /\ build_calls = <<>>)

\* the navigation failed after a response was captured: the call has ended in
\* the error, the browser is closed and the captured list was not returned
C10_Witness ==
    /\ exc = "NavigationError"
    /\ pc = "failed"
    /\ browser = "closed"
    /\ captured_api_responses # <<>>
    /\ responses = NoValue

\* the responses whose handler reached lines 34-39, and those it dropped
Appended == {id \in 1..Len(handled) : handled[id][1] = "appended"}
Skipped == {id \in 1..Len(handled) : handled[id][1] \in {"not_json", "read_failed"}}
\* the capture returned its list to get_match_dataframes
CaptureReturned == exc = "none" /\ pc \in {"extract", "build", "done", "failed"}

\* C11: a response without a JSON content type, or whose response.json()
\* fails, is not added to captured_api_responses and does not end the capture
\* (the only exceptions that leave it are those of the launch and of the
\* navigation); the list holds exactly one entry, with its URL and body, for
\* each JSON response whose body read completed, and that is the list
\* returned; and the observer is registered before the navigation starts, so
\* every response the page receives is observed.
C11_SkippedWithoutAborting ==
    /\ Len(handled) = arrived
    /\ pc \in {"goto", "navigating", "waiting", "closing"} => observer
    /\ \A id \in 1..Len(handled) : handled[id][1] # "unobserved"
    /\ Len(captured_api_responses) = Cardinality(Appended)
    /\ \A id \in Appended :
          /\ handled[id][2] \in 1..Len(captured_api_responses)
          /\ captured_api_responses[handled[id][2]].url = handled[id][3]
          /\ captured_api_responses[handled[id][2]].json_data \in {Json(id), PyNone}
          /\ \A other \in Appended : other # id => handled[other][2] # handled[id][2]
    /\ \A id \in Skipped : \A k \in 1..Len(captured_api_responses) :
          captured_api_responses[k].json_data # Json(id)
    /\ exc \in {"none", "LaunchError", "NavigationError"}
    /\ CaptureReturned => responses = captured_api_responses

\* a capture that returned after dropping a response that was not JSON and one
\* whose body read failed, and capturing the third
C11_Witness ==
    /\ CaptureReturned
    /\ \E a, b, c \in 1..Len(handled) :
          /\ handled[a][1] = "not_json"
          /\ handled[b][1] = "read_failed"
          /\ c \in Appended
    /\ Len(responses) = 1

-----------------------------------------------------------------------------
(* app.py main() (lines 21-63) and build_excel_from_match_url           *)
(* (excel_exporter.py lines 8-58); get_match_dataframes is one step here: *)
(* one browser session on the page as it is served at that moment         *)

\* stats_engine.py lines 275-282: the five datasets built from version v of
\* the data the page of url serves
Datasets(url, v) ==
    [outcome |-> "returned",
     df_global_summary |-> <<"df_global_summary", url, v>>,
     df_team_stats |-> <<"df_team_stats", url, v>>,
     df_player_stats |-> <<"df_player_stats", url, v>>,
     df_match_timeline |-> <<"df_match_timeline", url, v>>,
     df_minute_by_minute |-> <<"df_minute_by_minute", url, v>>]

\* excel_exporter.py lines 15-38: one sheet per dataset and the Charts sheet
Sheets(d) ==
    [outcome |-> "workbook",
     Global_Summary |-> d.df_global_summary,
     Team_Statistics |-> d.df_team_stats,
     Player_Statistics |-> d.df_player_stats,
     Match_Timeline |-> d.df_match_timeline,
     Minute_by_Minute |-> d.df_minute_by_minute,
     Charts |-> <<"Player Name", "Total Points", "Team Name", d.df_player_stats>>]

\* app.py lines 29-38: a URL is entered and "Analizar partido" is pressed;
\* Streamlit runs main() from its start
Analyze ==
    /\ app_pc \in {"idle", "shown", "error"}
    /\ \E url \in MatchUrls : match_url' = url
    /\ app_pc' = "load"
    /\ app_data' = NoDatasets
    /\ excel_bytes' = NoDatasets
    /\ sessions' = 0
    /\ UNCHANGED <<page, cache>>
    /\ UNCHANGED norm_vars
    /\ UNCHANGED pipe_vars

\* app.py lines 16-18 and 42: data = _cached_match_data(match_url); a hit
\* returns the cached datasets, a miss runs get_match_dataframes (one browser
\* session), which returns the datasets, then cached, or raises
CachedMatchData ==
    /\ app_pc = "load"
    /\ IF match_url \in DOMAIN cache
       THEN /\ app_data' = cache[match_url]
            /\ app_pc' = "export"
            /\ UNCHANGED <<cache, sessions>>
       ELSE /\ sessions' = sessions + 1
            /\ \E ok \in BOOLEAN :
                  IF ok
                  THEN /\ app_data' = Datasets(match_url, page[match_url])
                       /\ cache' = [u \in DOMAIN cache \cup {match_url} |->
                                       IF u = match_url THEN app_data' ELSE cache[u]]
                       /\ app_pc' = "export"
                  ELSE /\ app_pc' = "error"
                       /\ UNCHANGED <<app_data, cache>>
    /\ UNCHANGED <<match_url, page, excel_bytes>>
    /\ UNCHANGED norm_vars
    /\ UNCHANGED pipe_vars

\* app.py line 56 and excel_exporter.py lines 13-28: build_excel_from_match_url
\* calls get_match_dataframes(match_url) itself (another browser session) and
\* writes the sheets from what that call returns; lines 57-63 then offer the
\* workbook next to the dashboard of data
BuildExcelFromMatchUrl ==
    /\ app_pc = "export"
    /\ sessions' = sessions + 1
    /\ \E ok \in BOOLEAN :
          IF ok
          THEN /\ excel_bytes' = Sheets(Datasets(match_url, page[match_url]))
               /\ app_pc' = "shown"
          ELSE /\ app_pc' = "error"
               /\ UNCHANGED excel_bytes
    /\ UNCHANGED <<match_url, page, cache, app_data>>
    /\ UNCHANGED norm_vars
    /\ UNCHANGED pipe_vars

\* the site updates the data of a match (a match in play, a corrected sheet)
SiteUpdates ==
    /\ \E url \in MatchUrls :
          /\ page[url] < MaxVersion
          /\ page' = [page EXCEPT ![url] = @ + 1]
    /\ UNCHANGED <<app_pc, match_url, cache, app_data, excel_bytes, sessions>>
    /\ UNCHANGED norm_vars
    /\ UNCHANGED pipe_vars

NextApp == Analyze \/ CachedMatchData \/ BuildExcelFromMatchUrl \/ SiteUpdates

InitApp ==
    /\ NormalizerIdle
    /\ PipelineIdle
    /\ AppIdle

SpecApp == InitApp /\ [][NextApp]_vars

\* the data behind the five data sheets of a workbook
SheetData(w) ==
    <<w.Global_Summary, w.Team_Statistics, w.Player_Statistics,
      w.Match_Timeline, w.Minute_by_Minute>>
\* the five datasets of a result of get_match_dataframes
FiveDatasets(d) ==
    <<d.df_global_summary, d.df_team_stats, d.df_player_stats,
      d.df_match_timeline, d.df_minute_by_minute>>

\* C12: when one "Analizar partido" action has produced the dashboard and the
\* workbook, the data behind the sheets of the workbook equals the five
\* datasets the dashboard displays, and producing both opened a single
\* browser session.
C12_ExcelFromDisplayedData ==
    app_pc = "shown" =>
        /\ SheetData(excel_bytes) = FiveDatasets(app_data)
        /\ sessions = 1

-----------------------------------------------------------------------------
(* Claims about the order of the captured list and about the locator *)

\* the last response to arrive among those captured whose URL carries sig
LastArrived(sig) == Max({id \in Appended : sig \in handled[id][3]})
BodyOf(id) == captured_api_responses[handled[id][2]].json_data

\* C13: the entries of captured_api_responses are in the arrival order of
\* their responses, under every interleaving of the body reads; so when the
\* page issued an endpoint more than once, the payload handed to
\* _build_dataframes is the body of the response that arrived last.
C13_CapturedInArrivalOrder ==
    pc \in {"build", "done"} =>
        /\ located = <<"ok", BodyOf(LastArrived(StatsSig)), BodyOf(LastArrived(MovesSig))>>
        /\ \A i, j \in Appended :
              (i < j /\ handled[i][3] = handled[j][3] /\ handled[i][3] # {}) =>
                  handled[i][2] < handled[j][2]

\* C14: for every captured list in which some URL contains the stats
\* signature and some URL contains the moves signature, the locator returns a
\* pair without raising, whatever the bodies are (JSON null included) and
\* also when one URL contains both signatures.
C14_FailsOnlyWhenUnmatched ==
    (Located /\ Carrying(StatsSig) # {} /\ Carrying(MovesSig) # {}) =>
        /\ located[1] = "ok"
        /\ pc # "failed"

=============================================================================
